---- MODULE Spec2Model ----
(***************************************************************************)
(* A model of the font container of foundrytools_cli_2 (class Font), its   *)
(* guarded operations, and the batch command loops that drive it.          *)
(*                                                                         *)
(* The container machine (Spec) follows lib/font/font.py; the flavor       *)
(* save/restore around (de)subroutinization follows Font._restore_flavor   *)
(* of lib/font.py.  The calls into fontTools, cffsubr, dehinter and the    *)
(* repository's builders are library calls: every one of them either       *)
(* returns or raises, and the model takes both outcomes.                   *)
(***************************************************************************)
EXTENDS Integers, Sequences, FiniteSets, TLC

\* ------------------------------------------------------------ constants

PS_SFNT_VERSION == "OTTO"
TT_SFNT_VERSION == "\\0\\1\\0\\0"
\* The third sfntVersion fontTools loads (Apple TrueType); Font.get_real_extension
\* falls through to it when the font is neither is_ps nor is_tt.
OTHER_SFNT_VERSION == "true"
WOFF_FLAVOR == "woff"
WOFF2_FLAVOR == "woff2"
OTF_EXTENSION == ".otf"
TTF_EXTENSION == ".ttf"
WOFF_EXTENSION == ".woff"
WOFF2_EXTENSION == ".woff2"
\* ttfont.flavor of a raw SFNT font (Python None).
NONE_FLAVOR == "None"
MIN_UPM == 16
MAX_UPM == 16384

SfntVersions == {TT_SFNT_VERSION, PS_SFNT_VERSION, OTHER_SFNT_VERSION}
Flavors == {NONE_FLAVOR, WOFF_FLAVOR, WOFF2_FLAVOR}

\* Inputs the operations are called with.
Tolerances == {-1, 0, 1}
NewUpems == {MIN_UPM - 1, MIN_UPM, 1000, MAX_UPM, MAX_UPM + 1}
InitialUpems == {MIN_UPM, 1000}

VARIABLES
    \* -- the font container (class Font)
    sfntVersion,      \* ttfont.sfntVersion: the outline kind
    flavor,           \* ttfont.flavor: the wrapper kind
    tables,           \* the table set, abstracted to what the operations change
    modified,         \* Font.modified
    pc,               \* "idle", or the library call a Font method is inside
    original_flavor,  \* the local of Font._restore_flavor
    lastCall,         \* the last Font call: what was called and how it ended
    \* -- a batch command loop (cli/converter.py, cli/otf.py)
    cmd,              \* the command and its options
    fontIdx,          \* position of the `for font in fonts` loop
    bpc,              \* "for", "body", "done" or "aborted"
    step,             \* the statement of the try body that runs next
    trace,            \* the statements of the try body that returned, current font
    marked,           \* the current source font's modified flag
    result,           \* per font: "pending", "saved" or "failed"
    reported,         \* per font: the except clause logged its failure
    closed,           \* per font: Font.__exit__ ran
    opened,           \* per font: the intermediate objects created and not closed
    dest,             \* per font: the file at the output path
    \* -- Font.tt_decomponentize of lib/font.py
    glyf,             \* the glyf table: glyph name -> glyph
    gi,               \* position of the loop over glyphOrder
    dstatus,          \* "loop", "draw", "done" or "raised"
    dexc,             \* the exception tt_decomponentize raised, "" if none
    stack,            \* the frames of the recursive Glyph.draw / addComponent calls
    value,            \* dr_pen.value: what the recording pen has recorded
    glyf0,            \* the glyf table as loaded, before tt_decomponentize
    \* -- the CFF table of a PostScript font under cff_subr / cff_desubr
    charstrings,      \* glyph name -> charstring program (operators and callsubr)
    subrs,            \* the subroutine programs, in index order
    charstrings0,     \* the programs of the font as loaded (all flat)
    \* -- the snippets (sfnt_to_web, add_extremes, CFF set_names / del_names)
    args,             \* the arguments of the last snippet call
    saved,            \* the files the last snippet call saved, in order
    \* -- the style bits (OS2Table and HeadTable of the font)
    os_2,             \* fsSelection: is_bold, is_italic, is_regular, is_oblique
    head,             \* macStyle: is_bold, is_italic
    \* -- the styles mapping (class StylesMappingHandler)
    data,             \* self.data of the current handler
    is_default,       \* self.data is the module's _DEFAULT_DATA object
    DEFAULT_DATA,     \* the module's _DEFAULT_DATA object
    file,             \* the file at self.file
    temp_file,        \* whether self.file.with_suffix(".tmp") exists
    mpc,              \* "none", "idle", or "reset": __init__ after read_file raised
    mcall             \* the last StylesMappingHandler call

fontVars == <<sfntVersion, flavor, tables, modified, pc, original_flavor, lastCall>>
batchVars ==
    <<cmd, fontIdx, bpc, step, trace, marked, result, reported, closed, opened, dest>>
decompVars == <<glyf, gi, dstatus, dexc, stack, value, glyf0>>
cffVars == <<charstrings, subrs, charstrings0>>
\* The machines added to the three above.
snippetVars == <<args, saved>>
styleVars == <<os_2, head>>
mappingVars == <<data, is_default, DEFAULT_DATA, file, temp_file, mpc, mcall>>
restVars == <<cffVars, snippetVars, styleVars, mappingVars>>
vars == <<fontVars, batchVars, decompVars, restVars>>

\* What a caller can observe of the container.
Container == <<sfntVersion, flavor, tables, modified>>

\* ----------------------------------------------------------- properties

is_ps == sfntVersion = PS_SFNT_VERSION
is_tt == sfntVersion = TT_SFNT_VERSION
is_woff == flavor = WOFF_FLAVOR
is_woff2 == flavor = WOFF2_FLAVOR
is_sfnt == flavor = NONE_FLAVOR
is_static == ~tables.fvar
is_variable == tables.fvar

\* ------------------------------------------------------- call records

\* A call record: the method, how it ended ("ok", "guard", "error", or "running"
\* inside a library call), the exception type, the library calls made, the
\* argument, and for ps_correct_contours the glyph names fix_charstrings returned
\* (libret) and the ones the method returned (ret); both are {} for other calls.
\* `prev` is the method called before this one and how it ended.
CallRecord(op, outcome, exc, steps, arg, flag, prev) ==
    [op |-> op, outcome |-> outcome, exc |-> exc, steps |-> steps,
     arg |-> arg, flag |-> flag, libret |-> {}, ret |-> {}, prev |-> prev]

Call(op, outcome, exc, steps, arg, flag) ==
    CallRecord(op, outcome, exc, steps, arg, flag, <<lastCall.op, lastCall.outcome>>)

\* The record of the constructor: no call came before it.
Constructed(flag) == CallRecord("__init__", "ok", "", <<>>, 0, flag, <<"", "">>)

\* A guard of the method raised: nothing was called, nothing assigned.
RaiseGuard(op, exc, arg) ==
    /\ lastCall' = Call(op, "guard", exc, <<>>, arg, FALSE)
    /\ UNCHANGED <<sfntVersion, flavor, tables, modified, pc, original_flavor>>

\* A library call made by the method raised; the statements after it are skipped.
RaiseLib(op, steps, arg) ==
    /\ lastCall' = Call(op, "error", "Exception", steps, arg, FALSE)
    /\ UNCHANGED <<sfntVersion, flavor, tables, modified, pc, original_flavor>>

Returned(op, steps, arg, flag) ==
    lastCall' = Call(op, "ok", "", steps, arg, flag)

\* ------------------------------------------------------------------ Init

TableSets ==
    [fvar : BOOLEAN, composite : BOOLEAN, hinted : BOOLEAN, subr : BOOLEAN,
     overlaps : BOOLEAN, upem : InitialUpems]

\* Font.__init__: a font loaded from a file; `modified` is the constructor's argument.
FontInit ==
    /\ sfntVersion \in SfntVersions
    /\ flavor \in Flavors
    /\ tables \in TableSets
    /\ (sfntVersion = PS_SFNT_VERSION => ~tables.composite /\ ~tables.hinted)
    /\ (sfntVersion # PS_SFNT_VERSION => ~tables.subr)
    /\ modified \in BOOLEAN
    /\ pc = "idle"
    /\ original_flavor = NONE_FLAVOR
    /\ lastCall = Constructed(modified)

\* ------------------------------------------------------ wrapper kind

to_woff ==
    /\ pc = "idle"
    /\ UNCHANGED <<batchVars, decompVars, restVars>>
    /\ IF is_woff
       THEN RaiseGuard("to_woff", "NotImplementedError", 0)
       ELSE /\ flavor' = WOFF_FLAVOR
            /\ modified' = TRUE
            /\ Returned("to_woff", <<>>, 0, FALSE)
            /\ UNCHANGED <<sfntVersion, tables, pc, original_flavor>>

\* to_woff2 assigning the flavor of to_woff.
to_woff2_WrongFlavor ==
    /\ pc = "idle"
    /\ UNCHANGED <<batchVars, decompVars, restVars>>
    /\ IF is_woff2
       THEN RaiseGuard("to_woff2", "NotImplementedError", 0)
       ELSE /\ flavor' = WOFF_FLAVOR
            /\ modified' = TRUE
            /\ Returned("to_woff2", <<>>, 0, FALSE)
            /\ UNCHANGED <<sfntVersion, tables, pc, original_flavor>>

to_woff2 ==
    /\ pc = "idle"
    /\ UNCHANGED <<batchVars, decompVars, restVars>>
    /\ IF is_woff2
       THEN RaiseGuard("to_woff2", "NotImplementedError", 0)
       ELSE /\ flavor' = WOFF2_FLAVOR
            /\ modified' = TRUE
            /\ Returned("to_woff2", <<>>, 0, FALSE)
            /\ UNCHANGED <<sfntVersion, tables, pc, original_flavor>>

\* to_sfnt setting the modified flag before its guard is evaluated.
to_sfnt_MarkThenGuard ==
    /\ pc = "idle"
    /\ UNCHANGED <<batchVars, decompVars, restVars>>
    /\ IF is_sfnt
       THEN /\ modified' = TRUE
            /\ lastCall' = Call("to_sfnt", "guard", "NotImplementedError", <<>>, 0, FALSE)
            /\ UNCHANGED <<sfntVersion, flavor, tables, pc, original_flavor>>
       ELSE /\ flavor' = NONE_FLAVOR
            /\ modified' = TRUE
            /\ Returned("to_sfnt", <<>>, 0, FALSE)
            /\ UNCHANGED <<sfntVersion, tables, pc, original_flavor>>

to_sfnt ==
    /\ pc = "idle"
    /\ UNCHANGED <<batchVars, decompVars, restVars>>
    /\ IF is_sfnt
       THEN RaiseGuard("to_sfnt", "NotImplementedError", 0)
       ELSE /\ flavor' = NONE_FLAVOR
            /\ modified' = TRUE
            /\ Returned("to_sfnt", <<>>, 0, FALSE)
            /\ UNCHANGED <<sfntVersion, tables, pc, original_flavor>>

\* ------------------------------------------------------ outline kind

\* build_ttf replaces the CFF outlines by glyf outlines: simple, unhinted glyphs.
\* to_ttf refusing the fonts it should convert: the guard tests is_ps.
to_ttf_GuardOnPs ==
    /\ pc = "idle"
    /\ UNCHANGED <<batchVars, decompVars, restVars>>
    /\ \E max_err \in Tolerances :
         IF is_ps
         THEN RaiseGuard("to_ttf", "ValueError", max_err)
         ELSE IF is_variable
         THEN RaiseGuard("to_ttf", "NotImplementedError", max_err)
         ELSE \/ RaiseLib("to_ttf", <<"build_ttf">>, max_err)
              \/ /\ sfntVersion' = TT_SFNT_VERSION
                 /\ tables' = [tables EXCEPT !.composite = FALSE, !.hinted = FALSE,
                                             !.subr = FALSE]
                 /\ modified' = TRUE
                 /\ Returned("to_ttf", <<"build_ttf">>, max_err, FALSE)
                 /\ UNCHANGED <<flavor, pc, original_flavor>>

\* to_ttf building the TrueType font as a plain SFNT, dropping the wrapper.
to_ttf_DropsFlavor ==
    /\ pc = "idle"
    /\ UNCHANGED <<batchVars, decompVars, restVars>>
    /\ \E max_err \in Tolerances :
         IF is_tt
         THEN RaiseGuard("to_ttf", "ValueError", max_err)
         ELSE IF is_variable
         THEN RaiseGuard("to_ttf", "NotImplementedError", max_err)
         ELSE \/ RaiseLib("to_ttf", <<"build_ttf">>, max_err)
              \/ /\ sfntVersion' = TT_SFNT_VERSION
                 /\ flavor' = NONE_FLAVOR
                 /\ tables' = [tables EXCEPT !.composite = FALSE, !.hinted = FALSE,
                                             !.subr = FALSE]
                 /\ modified' = TRUE
                 /\ Returned("to_ttf", <<"build_ttf">>, max_err, FALSE)
                 /\ UNCHANGED <<pc, original_flavor>>

to_ttf ==
    /\ pc = "idle"
    /\ UNCHANGED <<batchVars, decompVars, restVars>>
    /\ \E max_err \in Tolerances :
         IF is_tt
         THEN RaiseGuard("to_ttf", "ValueError", max_err)
         ELSE IF is_variable
         THEN RaiseGuard("to_ttf", "NotImplementedError", max_err)
         ELSE \/ RaiseLib("to_ttf", <<"build_ttf">>, max_err)
              \/ /\ sfntVersion' = TT_SFNT_VERSION
                 /\ tables' = [tables EXCEPT !.composite = FALSE, !.hinted = FALSE,
                                             !.subr = FALSE]
                 /\ modified' = TRUE
                 /\ Returned("to_ttf", <<"build_ttf">>, max_err, FALSE)
                 /\ UNCHANGED <<flavor, pc, original_flavor>>

\* to_otf without its is_variable guard.
to_otf_NoVariableGuard ==
    /\ pc = "idle"
    /\ UNCHANGED <<batchVars, decompVars, restVars>>
    /\ \E tolerance \in Tolerances :
         IF is_ps
         THEN RaiseGuard("to_otf", "ValueError", tolerance)
         ELSE \/ RaiseLib("to_otf", <<"quadratics_to_cubics">>, tolerance)
              \/ RaiseLib("to_otf", <<"quadratics_to_cubics", "build_otf">>, tolerance)
              \/ /\ sfntVersion' = PS_SFNT_VERSION
                 /\ tables' = [tables EXCEPT !.composite = FALSE, !.hinted = FALSE,
                                             !.subr = FALSE]
                 /\ modified' = TRUE
                 /\ Returned("to_otf", <<"quadratics_to_cubics", "build_otf">>,
                             tolerance, FALSE)
                 /\ UNCHANGED <<flavor, pc, original_flavor>>

\* to_otf calls quadratics_to_cubics and then build_otf, which replaces the glyf
\* outlines by an unsubroutinized CFF table (no composites, no TrueType hints).  It
\* makes no call of tt_decomponentize or decomponentize before them.
to_otf ==
    /\ pc = "idle"
    /\ UNCHANGED <<batchVars, decompVars, restVars>>
    /\ \E tolerance \in Tolerances :
         IF is_ps
         THEN RaiseGuard("to_otf", "ValueError", tolerance)
         ELSE IF is_variable
         THEN RaiseGuard("to_otf", "NotImplementedError", tolerance)
         ELSE \/ RaiseLib("to_otf", <<"quadratics_to_cubics">>, tolerance)
              \/ RaiseLib("to_otf", <<"quadratics_to_cubics", "build_otf">>, tolerance)
              \/ /\ sfntVersion' = PS_SFNT_VERSION
                 /\ tables' = [tables EXCEPT !.composite = FALSE, !.hinted = FALSE,
                                             !.subr = FALSE]
                 /\ modified' = TRUE
                 /\ Returned("to_otf", <<"quadratics_to_cubics", "build_otf">>,
                             tolerance, FALSE)
                 /\ UNCHANGED <<flavor, pc, original_flavor>>

\* ------------------------------------------------ TrueType operations

\* tt_decomponentize without its is_tt guard.
tt_decomponentize_NoGuard ==
    /\ pc = "idle"
    /\ UNCHANGED <<batchVars, decompVars, restVars>>
    /\ \/ RaiseLib("tt_decomponentize", <<"decomponentize">>, 0)
       \/ /\ tables' = [tables EXCEPT !.composite = FALSE]
          /\ modified' = TRUE
          /\ Returned("tt_decomponentize", <<"decomponentize">>, 0, FALSE)
          /\ UNCHANGED <<sfntVersion, flavor, pc, original_flavor>>

tt_decomponentize ==
    /\ pc = "idle"
    /\ UNCHANGED <<batchVars, decompVars, restVars>>
    /\ IF ~is_tt
       THEN RaiseGuard("tt_decomponentize", "NotImplementedError", 0)
       ELSE \/ RaiseLib("tt_decomponentize", <<"decomponentize">>, 0)
            \/ /\ tables' = [tables EXCEPT !.composite = FALSE]
               /\ modified' = TRUE
               /\ Returned("tt_decomponentize", <<"decomponentize">>, 0, FALSE)
               /\ UNCHANGED <<sfntVersion, flavor, pc, original_flavor>>

\* tt_remove_hints as in lib/font.py, which never sets the modified flag.
tt_remove_hints_NoFlag ==
    /\ pc = "idle"
    /\ UNCHANGED <<batchVars, decompVars, restVars>>
    /\ IF ~is_tt
       THEN RaiseGuard("tt_remove_hints", "NotImplementedError", 0)
       ELSE \/ RaiseLib("tt_remove_hints", <<"dehint">>, 0)
            \/ /\ tables' = [tables EXCEPT !.hinted = FALSE]
               /\ Returned("tt_remove_hints", <<"dehint">>, 0, FALSE)
               /\ UNCHANGED <<sfntVersion, flavor, modified, pc, original_flavor>>

tt_remove_hints ==
    /\ pc = "idle"
    /\ UNCHANGED <<batchVars, decompVars, restVars>>
    /\ IF ~is_tt
       THEN RaiseGuard("tt_remove_hints", "NotImplementedError", 0)
       ELSE \/ RaiseLib("tt_remove_hints", <<"dehint">>, 0)
            \/ /\ tables' = [tables EXCEPT !.hinted = FALSE]
               /\ modified' = TRUE
               /\ Returned("tt_remove_hints", <<"dehint">>, 0, FALSE)
               /\ UNCHANGED <<sfntVersion, flavor, pc, original_flavor>>

\* Python's range(start, stop): the integers from start up to, not including, stop.
range(start, stop) == start..(stop - 1)

\* The range check of tt_scale_upem in lib/font.py.
InUpemRange(new_upem) == new_upem \in range(MIN_UPM, MAX_UPM + 1)

\* tt_scale_upem comparing with <= and >=: the two boundary values are refused.
tt_scale_upem_ExclusiveBounds ==
    /\ pc = "idle"
    /\ UNCHANGED <<batchVars, decompVars, restVars>>
    /\ \E new_upem \in NewUpems :
         IF ~is_tt
         THEN RaiseGuard("tt_scale_upem", "NotImplementedError", new_upem)
         ELSE IF new_upem <= MIN_UPM \/ new_upem >= MAX_UPM
         THEN RaiseGuard("tt_scale_upem", "ValueError", new_upem)
         ELSE IF tables.upem = new_upem
         THEN RaiseGuard("tt_scale_upem", "ValueError", new_upem)
         ELSE \/ RaiseLib("tt_scale_upem", <<"scale_upem">>, new_upem)
              \/ /\ tables' = [tables EXCEPT !.upem = new_upem]
                 /\ modified' = TRUE
                 /\ Returned("tt_scale_upem", <<"scale_upem">>, new_upem, FALSE)
                 /\ UNCHANGED <<sfntVersion, flavor, pc, original_flavor>>

tt_scale_upem ==
    /\ pc = "idle"
    /\ UNCHANGED <<batchVars, decompVars, restVars>>
    /\ \E new_upem \in NewUpems :
         IF ~is_tt
         THEN RaiseGuard("tt_scale_upem", "NotImplementedError", new_upem)
         ELSE IF new_upem < MIN_UPM \/ new_upem > MAX_UPM
         THEN RaiseGuard("tt_scale_upem", "ValueError", new_upem)
         ELSE IF tables.upem = new_upem
         THEN RaiseGuard("tt_scale_upem", "ValueError", new_upem)
         ELSE \/ RaiseLib("tt_scale_upem", <<"scale_upem">>, new_upem)
              \/ /\ tables' = [tables EXCEPT !.upem = new_upem]
                 /\ modified' = TRUE
                 /\ Returned("tt_scale_upem", <<"scale_upem">>, new_upem, FALSE)
                 /\ UNCHANGED <<sfntVersion, flavor, pc, original_flavor>>

\* ---------------------------------------------- PostScript operations

\* The glyphs of a PostScript font's CharStrings.
CharstringNames == {"A", "B"}

\* What fix_charstrings can return as modified_glyphs: the glyphs it altered, none
\* when no contour overlaps, is tiny or runs the wrong way.
ModifiedGlyphs == IF tables.overlaps THEN SUBSET CharstringNames \ {{}} ELSE {{}}

CorrectContoursCall(steps, modified_glyphs, ret) ==
    [Call("ps_correct_contours", "ok", "", steps, 0, modified_glyphs # {})
       EXCEPT !.libret = modified_glyphs, !.ret = ret]

\* ps_correct_contours without the early return for an empty list.
ps_correct_contours_AlwaysBuild ==
    /\ pc = "idle"
    /\ UNCHANGED <<batchVars, decompVars, restVars>>
    /\ IF ~is_ps
       THEN RaiseGuard("ps_correct_contours", "NotImplementedError", 0)
       ELSE \/ RaiseLib("ps_correct_contours", <<"fix_charstrings">>, 0)
            \/ RaiseLib("ps_correct_contours", <<"fix_charstrings", "build_otf">>, 0)
            \/ \E modified_glyphs \in ModifiedGlyphs :
                 /\ tables' = [tables EXCEPT !.overlaps = FALSE, !.subr = FALSE]
                 /\ modified' = TRUE
                 /\ lastCall' = CorrectContoursCall(<<"fix_charstrings", "build_otf">>,
                                                    modified_glyphs, modified_glyphs)
                 /\ UNCHANGED <<sfntVersion, flavor, pc, original_flavor>>

ps_correct_contours ==
    /\ pc = "idle"
    /\ UNCHANGED <<batchVars, decompVars, restVars>>
    /\ IF ~is_ps
       THEN RaiseGuard("ps_correct_contours", "NotImplementedError", 0)
       ELSE \/ RaiseLib("ps_correct_contours", <<"fix_charstrings">>, 0)
            \/ \E modified_glyphs \in ModifiedGlyphs :
                 IF modified_glyphs = {}
                 THEN /\ lastCall' = CorrectContoursCall(<<"fix_charstrings">>,
                                                         modified_glyphs, {})
                      /\ UNCHANGED <<sfntVersion, flavor, tables, modified, pc,
                                     original_flavor>>
                 ELSE \/ RaiseLib("ps_correct_contours",
                                  <<"fix_charstrings", "build_otf">>, 0)
                      \/ /\ tables' = [tables EXCEPT !.overlaps = FALSE,
                                                      !.subr = FALSE]
                         /\ modified' = TRUE
                         /\ lastCall' =
                                CorrectContoursCall(<<"fix_charstrings", "build_otf">>,
                                                    modified_glyphs, modified_glyphs)
                         /\ UNCHANGED <<sfntVersion, flavor, pc, original_flavor>>

\* Font._restore_flavor, entry: original_flavor = flavor; flavor = None; yield.
RestoreFlavorEnter(op, call) ==
    /\ original_flavor' = flavor
    /\ flavor' = NONE_FLAVOR
    /\ pc' = call
    /\ lastCall' = Call(op, "running", "", <<call>>, 0, FALSE)
    /\ UNCHANGED <<sfntVersion, tables, modified>>

\* Font._restore_flavor, the finally clause: it runs on return and on raise.
RestoreFlavorExit ==
    /\ flavor' = original_flavor
    /\ pc' = "idle"

\* ps_subroutinize up to the library call.
ps_subroutinize ==
    /\ pc = "idle"
    /\ UNCHANGED <<batchVars, decompVars, restVars>>
    /\ IF ~is_ps
       THEN RaiseGuard("ps_subroutinize", "NotImplementedError", 0)
       ELSE RestoreFlavorEnter("ps_subroutinize", "subroutinize")

\* ps_subroutinize restoring the flavor after the call instead of in a finally clause.
ps_subroutinize_return_NoFinally ==
    /\ pc = "subroutinize"
    /\ UNCHANGED <<batchVars, decompVars, restVars>>
    /\ pc' = "idle"
    /\ \/ /\ lastCall' = Call("ps_subroutinize", "error", "Exception",
                              <<"subroutinize">>, 0, FALSE)
          /\ UNCHANGED <<sfntVersion, flavor, tables, modified, original_flavor>>
       \/ /\ flavor' = original_flavor
          /\ tables' = [tables EXCEPT !.subr = TRUE]
          /\ modified' = TRUE
          /\ Returned("ps_subroutinize", <<"subroutinize">>, 0, FALSE)
          /\ UNCHANGED <<sfntVersion, original_flavor>>

\* cffsubr.subroutinize returns or raises; then the rest of ps_subroutinize.
ps_subroutinize_return ==
    /\ pc = "subroutinize"
    /\ UNCHANGED <<batchVars, decompVars, restVars>>
    /\ RestoreFlavorExit
    /\ \/ /\ lastCall' = Call("ps_subroutinize", "error", "Exception",
                              <<"subroutinize">>, 0, FALSE)
          /\ UNCHANGED <<sfntVersion, tables, modified, original_flavor>>
       \/ /\ tables' = [tables EXCEPT !.subr = TRUE]
          /\ modified' = TRUE
          /\ Returned("ps_subroutinize", <<"subroutinize">>, 0, FALSE)
          /\ UNCHANGED <<sfntVersion, original_flavor>>

ps_desubroutinize ==
    /\ pc = "idle"
    /\ UNCHANGED <<batchVars, decompVars, restVars>>
    /\ IF ~is_ps
       THEN RaiseGuard("ps_desubroutinize", "NotImplementedError", 0)
       ELSE RestoreFlavorEnter("ps_desubroutinize", "desubroutinize")

ps_desubroutinize_return ==
    /\ pc = "desubroutinize"
    /\ UNCHANGED <<batchVars, decompVars, restVars>>
    /\ RestoreFlavorExit
    /\ \/ /\ lastCall' = Call("ps_desubroutinize", "error", "Exception",
                              <<"desubroutinize">>, 0, FALSE)
          /\ UNCHANGED <<sfntVersion, tables, modified, original_flavor>>
       \/ /\ tables' = [tables EXCEPT !.subr = FALSE]
          /\ modified' = TRUE
          /\ Returned("ps_desubroutinize", <<"desubroutinize">>, 0, FALSE)
          /\ UNCHANGED <<sfntVersion, original_flavor>>

\* --------------------------------------------------- batch commands

\* Fonts the finder yields to one batch command.
NumFonts == 3
Fonts == 1..NumFonts

Commands ==
    [name : {"otf2ttf", "subr", "desubr"}, target_upm : {FALSE}, subroutinize : {FALSE}]
    \cup [name : {"ttf2otf"}, target_upm : BOOLEAN, subroutinize : {FALSE}]
    \cup [name : {"fix-contours"}, target_upm : {FALSE}, subroutinize : BOOLEAN]

\* The statements of each command's try body that call into the font, in source order.
ps2tt_steps == <<"otf_to_ttf", "get_output_file", "save">>

\* tt2ps with the contours corrected before the CFF table is built.
tt2ps_steps_SanitizeFirst(c) ==
    <<"tt_decomponentize">>
    \o (IF c.target_upm THEN <<"tt_scale_upm">> ELSE <<>>)
    \o <<"get_charstrings", "correct_otf_contours", "ttf_to_otf", "save_buffer",
         "Font_buffer", "subroutinize", "get_output_file", "save">>

tt2ps_steps(c) ==
    <<"tt_decomponentize">>
    \o (IF c.target_upm THEN <<"tt_scale_upm">> ELSE <<>>)
    \o <<"get_charstrings", "ttf_to_otf", "save_buffer", "Font_buffer",
         "correct_otf_contours", "subroutinize", "get_output_file", "save">>

fix_contours_steps(c) ==
    <<"correct_otf_contours">>
    \o (IF c.subroutinize THEN <<"ps_subroutinize">> ELSE <<>>)
    \o <<"get_output_file", "save">>

\* subr with the output written before the font is processed.
subr_steps_SaveFirst == <<"save", "ps_subroutinize", "get_output_file">>

subr_steps == <<"ps_subroutinize", "get_output_file", "save">>

desubr_steps == <<"ps_desubroutinize", "get_output_file", "save">>

Steps(c) ==
    CASE c.name = "otf2ttf" -> ps2tt_steps
      [] c.name = "ttf2otf" -> tt2ps_steps(c)
      [] c.name = "fix-contours" -> fix_contours_steps(c)
      [] c.name = "subr" -> subr_steps
      [] c.name = "desubr" -> desubr_steps

\* The Font methods that end with self.modified = True (lib/font/font.py).
MarkingSteps ==
    {"tt_decomponentize", "tt_scale_upm", "ps_subroutinize", "ps_desubroutinize"}

\* The objects a statement of tt2ps creates: `buffer = BytesIO()` with ps.save(buffer),
\* and `ps = Font(buffer, recalc_timestamp=False)`.  No statement of the loop closes
\* them, and neither is the subject of a with statement.
Creates(s) ==
    CASE s = "save_buffer" -> {"buffer"}
      [] s = "Font_buffer" -> {"ps"}
      [] OTHER -> {}

\* What is at the output path when the command starts: no file, or the file of
\* an earlier run (overwrite).  A save can leave the complete new font ("new") or
\* only part of its bytes ("partial") there.
OutputFiles == {"absent", "old"}

\* Font.save / font.ttfont.save(output_file): TTFont.save is given the output path
\* itself; no temporary file is written and renamed.  The call returns with the
\* complete file written.
SaveReturns == dest' = [dest EXCEPT ![fontIdx] = "new"]

\* The save raises: before the output path was opened for writing (the file is as
\* it was), or while the bytes were being written to it.
SaveRaises == \E d \in {dest[fontIdx], "partial"} : dest' = [dest EXCEPT ![fontIdx] = d]

BatchInit ==
    /\ cmd \in Commands
    /\ fontIdx = 1
    /\ bpc = "for"
    /\ step = 1
    /\ trace = <<>>
    /\ marked = FALSE
    /\ result = [f \in Fonts |-> "pending"]
    /\ reported = [f \in Fonts |-> FALSE]
    /\ closed = [f \in Fonts |-> FALSE]
    /\ opened = [f \in Fonts |-> {}]
    /\ dest \in [Fonts -> OutputFiles]

\* `for font in fonts: with font: try:` with a font left to process.
BatchFor ==
    /\ bpc = "for"
    /\ fontIdx <= NumFonts
    /\ bpc' = "body"
    /\ step' = 1
    /\ trace' = <<>>
    /\ marked' = FALSE
    /\ UNCHANGED <<cmd, fontIdx, result, reported, closed, opened, dest>>
    /\ UNCHANGED <<fontVars, decompVars, restVars>>

\* The iterator is exhausted: the command returns.
BatchEnd ==
    /\ bpc = "for"
    /\ fontIdx > NumFonts
    /\ bpc' = "done"
    /\ UNCHANGED <<cmd, fontIdx, step, trace, marked, result, reported, closed, opened,
                   dest>>
    /\ UNCHANGED <<fontVars, decompVars, restVars>>

\* Font.__exit__ closes the font; the loop goes on to the next one.
WithExit ==
    /\ closed' = [closed EXCEPT ![fontIdx] = TRUE]
    /\ fontIdx' = fontIdx + 1
    /\ bpc' = "for"

\* A statement of the try body returns; the statement that saves to the output
\* path writes the file.  After the last statement the with block is left.
BatchStepReturns ==
    /\ bpc = "body"
    /\ trace' = Append(trace, Steps(cmd)[step])
    /\ opened' = [opened EXCEPT ![fontIdx] = @ \cup Creates(Steps(cmd)[step])]
    /\ marked' = (marked \/ Steps(cmd)[step] \in MarkingSteps)
    /\ IF Steps(cmd)[step] = "save" THEN SaveReturns ELSE UNCHANGED dest
    /\ IF step = Len(Steps(cmd))
       THEN /\ result' = [result EXCEPT ![fontIdx] = "saved"]
            /\ WithExit
            /\ UNCHANGED <<cmd, step, reported>>
       ELSE /\ step' = step + 1
            /\ UNCHANGED <<cmd, fontIdx, bpc, result, reported, closed>>
    /\ UNCHANGED <<fontVars, decompVars, restVars>>

\* A try body without a handler for the exception: it leaves the with block
\* (closing the font) and the loop.
ExceptException_Propagates ==
    /\ closed' = [closed EXCEPT ![fontIdx] = TRUE]
    /\ bpc' = "aborted"
    /\ UNCHANGED <<fontIdx, result, reported>>

\* `except Exception as e: logger.error(e)` (print(e) in tt2ps), then the with exit.
ExceptException ==
    /\ reported' = [reported EXCEPT ![fontIdx] = TRUE]
    /\ result' = [result EXCEPT ![fontIdx] = "failed"]
    /\ WithExit

\* A statement of the try body raises.
BatchStepRaises ==
    /\ bpc = "body"
    /\ ExceptException
    /\ IF Steps(cmd)[step] = "save" THEN SaveRaises ELSE UNCHANGED dest
    /\ UNCHANGED <<cmd, step, trace, marked, opened>>
    /\ UNCHANGED <<fontVars, decompVars, restVars>>

BatchNext ==
    \/ BatchFor
    \/ BatchEnd
    \/ BatchStepReturns
    \/ BatchStepRaises

\* ------------------------------------------ tt_decomponentize, lib/font.py

NumGlyphs == 3
GlyphNames == 1..NumGlyphs
\* How many components a composite glyph of the model has.
ComponentCounts == {1, 2}
\* The interpreter's recursion limit, counted in nested Glyph.draw calls.
RecursionLimit == 5

\* The x offsets of a component's transformation (a translation).
Offsets == {0, 1}

\* A component: the glyph it references and its translation.
ComponentRefs == [glyph : GlyphNames, dx : Offsets]

\* A composite with one component places it at any offset; one with several
\* components places them at increasing offsets (a base glyph and its marks).
ComponentLists ==
    UNION {{c \in [1..n -> ComponentRefs] : \A i \in 2..n : c[i - 1].dx < c[i].dx} :
             n \in ComponentCounts}

\* A contour: the simple glyph it was loaded from and where it lies.
Contour(g, dx) == [name |-> g, dx |-> dx]

\* TransformPen: an outline drawn through a translation by dx.
Transformed(outline, dx) ==
    [i \in DOMAIN outline |-> Contour(outline[i].name, outline[i].dx + dx)]

SimpleGlyph(outline) == [composite |-> FALSE, components |-> <<>>, outline |-> outline]

CompositeGlyph(components) ==
    [composite |-> TRUE, components |-> components, outline |-> <<>>]

\* A simple glyph of the loaded font draws one contour, named after the glyph.
GlyphsOf(g) == {SimpleGlyph(<<Contour(g, 0)>>)} \cup {CompositeGlyph(c) : c \in ComponentLists}

DecompInit ==
    /\ glyf \in {t \in [GlyphNames -> UNION {GlyphsOf(g) : g \in GlyphNames}] :
                   \A g \in GlyphNames : t[g] \in GlyphsOf(g)}
    /\ gi = 1
    /\ dstatus = "loop"
    /\ dexc = ""
    /\ stack = <<>>
    /\ value = <<>>
    /\ glyf0 = glyf

\* `for glyph_name in glyphOrder`: a glyph that is not composite is skipped; for a
\* composite one the pens are reset and glyph.draw(dr_pen, glyf_table) is entered.
DecompLoop ==
    /\ dstatus = "loop"
    /\ gi <= NumGlyphs
    /\ IF ~glyf[gi].composite
       THEN /\ gi' = gi + 1
            /\ UNCHANGED <<glyf, dstatus, dexc, stack, value>>
       ELSE /\ value' = <<>>
            /\ stack' = <<[glyph |-> gi, idx |-> 1, dx |-> 0]>>
            /\ dstatus' = "draw"
            /\ UNCHANGED <<glyf, gi, dexc>>
    /\ UNCHANGED <<fontVars, batchVars, glyf0, restVars>>

DecompEnd ==
    /\ dstatus = "loop"
    /\ gi > NumGlyphs
    /\ dstatus' = "done"
    /\ UNCHANGED <<glyf, gi, dexc, stack, value>>
    /\ UNCHANGED <<fontVars, batchVars, glyf0, restVars>>

Top == stack[Len(stack)]
Pop == SubSeq(stack, 1, Len(stack) - 1)
Advance == [Pop EXCEPT ![Len(stack) - 1].idx = @ + 1]

\* Glyph.draw of a composite glyph has passed its last component: the call returns.
\* When it was the outermost call, dr_pen.replay(tt_pen) and the assignment
\* glyf_table[glyph_name] = tt_pen.glyph() follow.
DrawReturn ==
    /\ dstatus = "draw"
    /\ Top.idx > Len(glyf[Top.glyph].components)
    /\ IF Len(stack) = 1
       THEN /\ glyf' = [glyf EXCEPT ![gi] = SimpleGlyph(value)]
            /\ gi' = gi + 1
            /\ stack' = <<>>
            /\ dstatus' = "loop"
            /\ UNCHANGED <<dexc, value>>
       ELSE /\ stack' = Advance
            /\ UNCHANGED <<glyf, gi, dstatus, dexc, value>>
    /\ UNCHANGED <<fontVars, batchVars, glyf0, restVars>>

\* addComponent drawing the referenced glyph without its transformation.
AddSimpleComponent_NoTransform ==
    /\ dstatus = "draw"
    /\ Top.idx <= Len(glyf[Top.glyph].components)
    /\ LET ref == glyf[Top.glyph].components[Top.idx]
       IN  /\ ~glyf[ref.glyph].composite
           /\ value' = value \o glyf[ref.glyph].outline
           /\ stack' = [stack EXCEPT ![Len(stack)].idx = @ + 1]
    /\ UNCHANGED <<glyf, gi, dstatus, dexc>>
    /\ UNCHANGED <<fontVars, batchVars, glyf0, restVars>>

\* pen.addComponent of a simple glyph: DecomposingPen draws its outline, through
\* the transformations of the components on the way, into the recording pen.
AddSimpleComponent ==
    /\ dstatus = "draw"
    /\ Top.idx <= Len(glyf[Top.glyph].components)
    /\ LET ref == glyf[Top.glyph].components[Top.idx]
       IN  /\ ~glyf[ref.glyph].composite
           /\ value' = value \o Transformed(glyf[ref.glyph].outline, Top.dx + ref.dx)
           /\ stack' = [stack EXCEPT ![Len(stack)].idx = @ + 1]
    /\ UNCHANGED <<glyf, gi, dstatus, dexc>>
    /\ UNCHANGED <<fontVars, batchVars, glyf0, restVars>>

\* pen.addComponent of a composite glyph: DecomposingPen calls the referenced
\* glyph's draw, which calls addComponent for each of its components.  Nothing
\* remembers the glyphs being drawn; only the interpreter's recursion limit stops
\* the descent.
AddCompositeComponent ==
    /\ dstatus = "draw"
    /\ Top.idx <= Len(glyf[Top.glyph].components)
    /\ LET ref == glyf[Top.glyph].components[Top.idx]
       IN  /\ glyf[ref.glyph].composite
           /\ IF Len(stack) >= RecursionLimit
              THEN /\ dstatus' = "raised"
                   /\ dexc' = "RecursionError"
                   /\ stack' = <<>>
              ELSE /\ stack' = Append(stack, [glyph |-> ref.glyph, idx |-> 1,
                                                 dx |-> Top.dx + ref.dx])
                   /\ UNCHANGED <<dstatus, dexc>>
    /\ UNCHANGED <<glyf, gi, value>>
    /\ UNCHANGED <<fontVars, batchVars, glyf0, restVars>>

DecompNext ==
    \/ DecompLoop
    \/ DecompEnd
    \/ DrawReturn
    \/ AddSimpleComponent
    \/ AddCompositeComponent

\* ------------------------------------------- cff_subr and cff_desubr

\* The path operators of a charstring program.  A token n > 0 is the operator n;
\* a token -i is `callsubr` of the subroutine i.
NumOperators == 2
Operators == 1..NumOperators
\* The longest program of a loaded glyph, and the most subroutines a font gets.
MaxProgramLen == 3
MaxSubrs == 2
\* The length of the fragments the subroutinizer factors out.
FragmentLen == 2

Programs == UNION {[1..n -> Operators] : n \in 0..MaxProgramLen}

\* What a program draws: every callsubr replaced by the subroutine's own drawing.
RECURSIVE Decoded(_, _)
Decoded(program, subroutines) ==
    IF program = <<>>
    THEN <<>>
    ELSE (IF Head(program) < 0
          THEN Decoded(subroutines[-Head(program)], subroutines)
          ELSE <<Head(program)>>) \o Decoded(Tail(program), subroutines)

\* The places where the fragment occurs in the programs of the font.
Occurrences(fragment) ==
    {<<g, i>> \in CharstringNames \X (1..MaxProgramLen) :
        /\ i + FragmentLen - 1 <= Len(charstrings[g])
        /\ SubSeq(charstrings[g], i, i + FragmentLen - 1) = fragment}

\* The fragments that occur more than once across the glyph set.
RepeatedFragments ==
    {f \in {SubSeq(charstrings[oc[1]], oc[2], oc[2] + FragmentLen - 1) :
              oc \in {x \in CharstringNames \X (1..MaxProgramLen) :
                        x[2] + FragmentLen - 1 <= Len(charstrings[x[1]])}} :
        Cardinality(Occurrences(f)) > 1}

\* The program with every occurrence of the fragment, left to right, replaced by
\* the token.
RECURSIVE Factored(_, _, _)
Factored(program, fragment, token) ==
    IF Len(program) < FragmentLen
    THEN program
    ELSE IF SubSeq(program, 1, FragmentLen) = fragment
    THEN <<token>> \o Factored(SubSeq(program, FragmentLen + 1, Len(program)),
                                fragment, token)
    ELSE <<Head(program)>> \o Factored(Tail(program), fragment, token)

CffInit ==
    /\ charstrings \in [CharstringNames -> Programs]
    /\ subrs = <<>>
    /\ charstrings0 = charstrings

\* A static PostScript font, for the calls that need one.
PsFontIdle ==
    /\ sfntVersion = PS_SFNT_VERSION
    /\ flavor = NONE_FLAVOR
    /\ tables = [fvar |-> FALSE, composite |-> FALSE, hinted |-> FALSE, subr |-> FALSE,
                 overlaps |-> FALSE, upem |-> 1000]
    /\ modified = FALSE
    /\ pc = "idle"
    /\ original_flavor = NONE_FLAVOR
    /\ lastCall = Constructed(FALSE)

\* The subroutinizer dropping the operator that follows a factored fragment.
cff_subr_DropsOperator ==
    \/ /\ RepeatedFragments = {} \/ Len(subrs) = MaxSubrs
       /\ UNCHANGED <<charstrings, subrs>>
    \/ /\ Len(subrs) < MaxSubrs
       /\ \E fragment \in RepeatedFragments :
            /\ subrs' = Append(subrs, fragment)
            /\ charstrings' =
                 [g \in CharstringNames |->
                    LET p == Factored(charstrings[g], fragment, -(Len(subrs) + 1))
                    IN  IF Len(p) > 1 /\ p[1] < 0 THEN <<p[1]>> \o Tail(Tail(p)) ELSE p]

\* cff_subr(font): a fragment that occurs more than once is moved into a new
\* subroutine and each occurrence becomes a callsubr; nothing else changes.
cff_subr ==
    \/ /\ RepeatedFragments = {} \/ Len(subrs) = MaxSubrs
       /\ UNCHANGED <<charstrings, subrs>>
    \/ /\ Len(subrs) < MaxSubrs
       /\ \E fragment \in RepeatedFragments :
            /\ subrs' = Append(subrs, fragment)
            /\ charstrings' =
                 [g \in CharstringNames |->
                    Factored(charstrings[g], fragment, -(Len(subrs) + 1))]

\* cff_desubr(font): every callsubr is inlined and the subroutines are dropped.
cff_desubr ==
    /\ charstrings' = [g \in CharstringNames |-> Decoded(charstrings[g], subrs)]
    /\ subrs' = <<>>

\* Font.ps_subroutinize on a PostScript font whose cff_subr returns.
CffSubroutinize ==
    /\ pc = "idle"
    /\ is_ps
    /\ cff_subr
    /\ tables' = [tables EXCEPT !.subr = subrs' # <<>>]
    /\ modified' = TRUE
    /\ Returned("ps_subroutinize", <<"cff_subr">>, 0, FALSE)
    /\ UNCHANGED <<sfntVersion, flavor, pc, original_flavor, charstrings0>>
    /\ UNCHANGED <<batchVars, decompVars, snippetVars, styleVars, mappingVars>>

\* Font.ps_desubroutinize on a PostScript font whose cff_desubr returns.
CffDesubroutinize ==
    /\ pc = "idle"
    /\ is_ps
    /\ cff_desubr
    /\ tables' = [tables EXCEPT !.subr = FALSE]
    /\ modified' = TRUE
    /\ Returned("ps_desubroutinize", <<"cff_desubr">>, 0, FALSE)
    /\ UNCHANGED <<sfntVersion, flavor, pc, original_flavor, charstrings0>>
    /\ UNCHANGED <<batchVars, decompVars, snippetVars, styleVars, mappingVars>>

CffNext ==
    \/ CffSubroutinize
    \/ CffDesubroutinize

CffIdle ==
    /\ charstrings = [g \in CharstringNames |-> <<>>]
    /\ subrs = <<>>
    /\ charstrings0 = charstrings

\* ------------------------------------------------------------ snippets

\* Font.get_real_extension.
get_real_extension ==
    IF is_woff THEN WOFF_EXTENSION
    ELSE IF is_woff2 THEN WOFF2_EXTENSION
    ELSE IF is_ps THEN OTF_EXTENSION
    ELSE IF is_tt THEN TTF_EXTENSION
    ELSE sfntVersion

\* The values of out_format; "None" is the default.
OutFormats == {"None", WOFF_FLAVOR, WOFF2_FLAVOR}

NoArgs == [out_format |-> "None", subroutinize |-> FALSE]

\* sfnt_to_web with the WOFF2 block before the WOFF block.
sfnt_to_web_calls_Woff2First(out_format) ==
    (IF out_format \in {"None", WOFF2_FLAVOR} THEN <<"to_woff2", "save">> ELSE <<>>)
    \o (IF out_format \in {"None", WOFF_FLAVOR} THEN <<"to_woff", "save">> ELSE <<>>)

\* The calls of sfnt_to_web main on the font, in source order.
sfnt_to_web_calls(out_format) ==
    (IF out_format \in {"None", WOFF_FLAVOR} THEN <<"to_woff", "save">> ELSE <<>>)
    \o (IF out_format \in {"None", WOFF2_FLAVOR} THEN <<"to_woff2", "save">> ELSE <<>>)

\* The wrapper kind after the first k calls have returned.
RECURSIVE FlavorAfter(_, _)
FlavorAfter(calls, k) ==
    IF k = 0 THEN flavor
    ELSE IF calls[k] = "to_woff" THEN WOFF_FLAVOR
    ELSE IF calls[k] = "to_woff2" THEN WOFF2_FLAVOR
    ELSE FlavorAfter(calls, k - 1)

\* The guard of to_woff / to_woff2 refuses the call number k.
Refused(calls, k) ==
    \/ calls[k] = "to_woff" /\ FlavorAfter(calls, k - 1) = WOFF_FLAVOR
    \/ calls[k] = "to_woff2" /\ FlavorAfter(calls, k - 1) = WOFF2_FLAVOR

\* The files written by the save calls among the first k calls.
RECURSIVE SavedAfter(_, _, _)
SavedAfter(calls, k, suffix) ==
    IF k = 0 THEN <<>>
    ELSE IF calls[k] = "save"
    THEN Append(SavedAfter(calls, k - 1, suffix),
                [flavor |-> FlavorAfter(calls, k), suffix |-> suffix])
    ELSE SavedAfter(calls, k - 1, suffix)

\* sfnt_to_web main.  k calls return; the next one, if any, raises (a refused
\* conversion, or a save that fails) and the exception leaves main.
sfnt_to_web ==
    /\ pc = "idle"
    /\ \E out_format \in OutFormats :
         LET suffix == get_real_extension
             calls == sfnt_to_web_calls(out_format)
         IN  \E k \in 0..Len(calls) :
               /\ \A i \in 1..k : ~Refused(calls, i)
               /\ k < Len(calls) => Refused(calls, k + 1) \/ calls[k + 1] = "save"
               /\ flavor' = FlavorAfter(calls, k)
               /\ modified' = (modified \/ k > 0)
               /\ saved' = SavedAfter(calls, k, suffix)
               /\ args' = [NoArgs EXCEPT !.out_format = out_format]
               /\ lastCall' =
                    IF k = Len(calls)
                    THEN Call("sfnt_to_web", "ok", "", calls, 0, FALSE)
                    ELSE Call("sfnt_to_web", "error",
                              IF calls[k + 1] = "save" THEN "Exception"
                              ELSE "NotImplementedError",
                              SubSeq(calls, 1, k + 1), 0, FALSE)
    /\ UNCHANGED <<sfntVersion, tables, pc, original_flavor>>
    /\ UNCHANGED <<batchVars, decompVars, cffVars, styleVars, mappingVars>>

\* add_extremes main: from_beziers reads the CFF charstrings (it raises on a font
\* without them), build_otf rebuilds the CFF table unsubroutinized, and
\* font.ps_subroutinize() follows only when subroutinize is set.  main itself
\* never assigns font.modified.
add_extremes ==
    /\ pc = "idle"
    /\ \E subroutinize \in BOOLEAN :
         /\ args' = [NoArgs EXCEPT !.subroutinize = subroutinize]
         /\ \/ /\ lastCall' = Call("add_extremes", "error", "Exception",
                                   <<"from_beziers">>, 0, FALSE)
               /\ UNCHANGED <<tables, modified>>
            \/ /\ is_ps
               /\ lastCall' = Call("add_extremes", "error", "Exception",
                                   <<"from_beziers", "build_otf">>, 0, FALSE)
               /\ UNCHANGED <<tables, modified>>
            \/ /\ is_ps
               /\ ~subroutinize
               /\ tables' = [tables EXCEPT !.subr = FALSE]
               /\ lastCall' = Call("add_extremes", "ok", "",
                                   <<"from_beziers", "build_otf">>, 0, FALSE)
               /\ UNCHANGED modified
            \/ /\ is_ps
               /\ subroutinize
               /\ tables' = [tables EXCEPT !.subr = FALSE]
               /\ lastCall' = Call("add_extremes", "error", "Exception",
                                   <<"from_beziers", "build_otf", "ps_subroutinize">>,
                                   0, FALSE)
               /\ UNCHANGED modified
            \/ /\ is_ps
               /\ subroutinize
               /\ tables' = [tables EXCEPT !.subr = TRUE]
               /\ modified' = TRUE
               /\ lastCall' = Call("add_extremes", "ok", "",
                                   <<"from_beziers", "build_otf", "ps_subroutinize">>,
                                   0, FALSE)
    /\ saved' = <<>>
    /\ UNCHANGED <<sfntVersion, flavor, pc, original_flavor>>
    /\ UNCHANGED <<batchVars, decompVars, cffVars, styleVars, mappingVars>>

\* CFFTable(font.ttfont).modified after set_names / del_top_dict_names: whether
\* the call changed the table.  A name set to the value it has, or a name deleted
\* that is not there, changes nothing.
CffTableModified == BOOLEAN

\* The assignment `font.modified = cff_table.modified` of set_names and del_names.
AssignModified(op) ==
    /\ pc = "idle"
    /\ IF ~is_ps
       THEN /\ lastCall' = Call(op, "error", "Exception", <<"CFFTable">>, 0, FALSE)
            /\ UNCHANGED modified
       ELSE \E changed \in CffTableModified :
              /\ modified' = changed
              /\ lastCall' = Call(op, "ok", "", <<"CFFTable", op>>, 0, changed)
    /\ args' = NoArgs
    /\ saved' = <<>>
    /\ UNCHANGED <<sfntVersion, flavor, tables, pc, original_flavor>>
    /\ UNCHANGED <<batchVars, decompVars, cffVars, styleVars, mappingVars>>

set_names == AssignModified("set_names")

del_names == AssignModified("del_names")

SnippetNext ==
    \/ sfnt_to_web
    \/ add_extremes
    \/ set_names
    \/ del_names

SnippetIdle ==
    /\ args = NoArgs
    /\ saved = <<>>

\* ---------------------------------------------------------- style bits

\* The properties Font.is_bold and Font.is_italic: both tables must agree.
is_bold == os_2.is_bold /\ head.is_bold
is_italic == os_2.is_italic /\ head.is_italic

\* A font whose OS/2 and head bits agree and whose regular bit is set exactly when
\* it is neither bold nor italic.
StyleInit ==
    /\ os_2 \in [is_bold : BOOLEAN, is_italic : BOOLEAN, is_regular : BOOLEAN,
                 is_oblique : BOOLEAN]
    /\ head \in [is_bold : BOOLEAN, is_italic : BOOLEAN]
    /\ os_2.is_bold = head.is_bold
    /\ os_2.is_italic = head.is_italic
    /\ os_2.is_regular = (~os_2.is_bold /\ ~os_2.is_italic)

\* A style setter returned: the container itself is not touched, not even its
\* modified flag.  `bit` is the method's argument `value`.
StyleCall(op, bit) ==
    /\ pc = "idle"
    /\ lastCall' = Call(op, "ok", "", <<>>, 0, bit)
    /\ UNCHANGED <<sfntVersion, flavor, tables, modified, pc, original_flavor>>
    /\ UNCHANGED <<batchVars, decompVars, cffVars, snippetVars, mappingVars>>

set_italic ==
    \E bit \in BOOLEAN :
      /\ StyleCall("set_italic", bit)
      /\ head' = [head EXCEPT !.is_italic = bit]
      /\ os_2' = IF bit
                 THEN [os_2 EXCEPT !.is_italic = TRUE, !.is_regular = FALSE]
                 ELSE IF ~is_bold
                 THEN [os_2 EXCEPT !.is_italic = FALSE, !.is_regular = TRUE]
                 ELSE [os_2 EXCEPT !.is_italic = FALSE]

\* set_bold(False) setting the regular bit without looking at the italic bit.
set_bold_AlwaysRegular ==
    \E bit \in BOOLEAN :
      /\ StyleCall("set_bold", bit)
      /\ head' = [head EXCEPT !.is_bold = bit]
      /\ os_2' = IF bit
                 THEN [os_2 EXCEPT !.is_bold = TRUE, !.is_regular = FALSE]
                 ELSE [os_2 EXCEPT !.is_bold = FALSE, !.is_regular = TRUE]

set_bold ==
    \E bit \in BOOLEAN :
      /\ StyleCall("set_bold", bit)
      /\ head' = [head EXCEPT !.is_bold = bit]
      /\ os_2' = IF bit
                 THEN [os_2 EXCEPT !.is_bold = TRUE, !.is_regular = FALSE]
                 ELSE IF ~is_italic
                 THEN [os_2 EXCEPT !.is_bold = FALSE, !.is_regular = TRUE]
                 ELSE [os_2 EXCEPT !.is_bold = FALSE]

set_regular ==
    \E bit \in BOOLEAN :
      /\ StyleCall("set_regular", bit)
      /\ IF bit
         THEN /\ os_2' = [os_2 EXCEPT !.is_bold = FALSE, !.is_italic = FALSE,
                                      !.is_regular = TRUE]
              /\ head' = [head EXCEPT !.is_bold = FALSE, !.is_italic = FALSE]
         ELSE /\ os_2' = IF is_bold \/ is_italic
                         THEN [os_2 EXCEPT !.is_regular = FALSE]
                         ELSE os_2
              /\ UNCHANGED head

set_oblique ==
    \E bit \in BOOLEAN :
      /\ StyleCall("set_oblique", bit)
      /\ os_2' = [os_2 EXCEPT !.is_oblique = bit]
      /\ UNCHANGED head

StyleNext ==
    \/ set_italic
    \/ set_bold
    \/ set_regular
    \/ set_oblique

StyleIdle ==
    /\ os_2 = [is_bold |-> FALSE, is_italic |-> FALSE, is_regular |-> TRUE,
               is_oblique |-> FALSE]
    /\ head = [is_bold |-> FALSE, is_italic |-> FALSE]

\* ------------------------------- styles mapping, assistant/styles_mapping.py

\* foundrytools.constants: the usWeightClass and usWidthClass ranges.
MIN_US_WEIGHT_CLASS == 1
MAX_US_WEIGHT_CLASS == 1000
MIN_US_WIDTH_CLASS == 1
MAX_US_WIDTH_CLASS == 9

\* A dictionary key is an int or a str: 400 and "400" are different keys.
IntKey(n) == <<"int", n>>
StrKey(n) == <<"str", n>>

\* A dict literal with int keys.
IntDict(d) == [k \in {IntKey(n) : n \in DOMAIN d} |-> d[k[2]]]

DEFAULT_WEIGHTS ==
    IntDict(250 :> <<"Th", "Thin">> @@ 275 :> <<"XLt", "ExtraLight">>
            @@ 300 :> <<"Lt", "Light">> @@ 350 :> <<"Bk", "Book">>
            @@ 400 :> <<"Rg", "Regular">> @@ 500 :> <<"Md", "Medium">>
            @@ 600 :> <<"SBd", "SemiBold">> @@ 700 :> <<"Bd", "Bold">>
            @@ 800 :> <<"XBd", "ExtraBold">> @@ 850 :> <<"Hvy", "Heavy">>
            @@ 900 :> <<"Blk", "Black">> @@ 950 :> <<"Ult", "Ultra">>)

DEFAULT_WIDTHS ==
    IntDict(1 :> <<"Cm", "Compressed">> @@ 2 :> <<"XCn", "ExtraCondensed">>
            @@ 3 :> <<"Cn", "Condensed">> @@ 4 :> <<"Nr", "Narrow">>
            @@ 5 :> <<"Nor", "Normal">> @@ 6 :> <<"Wd", "Wide">>
            @@ 7 :> <<"Ext", "Extended">> @@ 8 :> <<"XExt", "ExtraExtended">>
            @@ 9 :> <<"Exp", "Expanded">>)

DEFAULT_SLOPES == [italic |-> <<"It", "Italic">>, oblique |-> <<"Ob", "Oblique">>]

\* The literal of _DEFAULT_DATA, as the module is imported.
DefaultDataLiteral ==
    [weights |-> DEFAULT_WEIGHTS, widths |-> DEFAULT_WIDTHS, slopes |-> DEFAULT_SLOPES]

\* The arguments the calls of the model are made with.
WeightArgs == {400, 1080}
WidthArgs == {5, 10}
SlopeArgs == {"italic"}
NamesArgs == {<<"Normal", "Nm">>, <<"Book">>}

\* len() of the names above.
len(s) ==
    CASE s = "Nm" -> 2
      [] s = "Book" -> 4
      [] s = "Normal" -> 6

\* sorted(names, key=len) of a two-element list (the sort is stable).
sorted(names) ==
    IF len(names[1]) <= len(names[2]) THEN names ELSE <<names[2], names[1]>>

\* json.dumps writes every key as a string; json.load of a text in which a key
\* occurs twice keeps the later one.  An int key is always inserted after the str
\* keys of a loaded mapping.
JsonKeys(d) ==
    [k \in {StrKey(j[2]) : j \in DOMAIN d} |->
        IF IntKey(k[2]) \in DOMAIN d THEN d[IntKey(k[2])] ELSE d[k]]

\* json.load(json.dumps(data)).
Json(d) == [weights |-> JsonKeys(d.weights), widths |-> JsonKeys(d.widths),
            slopes |-> d.slopes]

\* The file at self.file: no file, a file of zero bytes, or a JSON text.
NoData == [weights |-> <<>>, widths |-> <<>>, slopes |-> <<>>]
Absent == [state |-> "absent", content |-> NoData]
Empty == [state |-> "empty", content |-> NoData]
JsonFile(d) == [state |-> "json", content |-> Json(d)]

\* StylesMappingHandler._validate_range
validate_range(n, min_value, max_value) == min_value <= n /\ n <= max_value

\* StylesMappingHandler._validate_names
validate_names(names) == Len(names) = 2

\* The record of the last StylesMappingHandler call: how it ended, and why it
\* raised.
MCall(op, outcome, why, n) == [op |-> op, outcome |-> outcome, why |-> why, arg |-> n]

NoCall == MCall("", "", "", 0)

\* The statements of save_to_file's try body that can raise.
SavePoints == {"mkdir", "touch", "write_text", "replace"}

\* self.file after save_to_file raised in p: touch(exist_ok=True) has created the
\* file when write_text or replace raises.
FileAfterFailedSave(p) ==
    IF p \in {"write_text", "replace"} /\ file.state = "absent" THEN Empty ELSE file

\* save_to_file(d), called by op: the temp file replaces self.file, or a statement
\* raises, the temp file is unlinked and StylesMappingError is raised.
save_to_file_call(d, op, n) ==
    /\ temp_file' = FALSE
    /\ \/ /\ file' = JsonFile(d)
          /\ mcall' = MCall(op, "ok", "", n)
       \/ \E p \in SavePoints :
            /\ file' = FileAfterFailedSave(p)
            /\ mcall' = MCall(op, "StylesMappingError", "save", n)

\* An operation raises StylesMappingError before it has changed anything.
MappingRaises(op, why, n) ==
    /\ mcall' = MCall(op, "StylesMappingError", why, n)
    /\ UNCHANGED <<data, is_default, DEFAULT_DATA, file, temp_file, mpc>>

\* self.data[...] = ... / del self.data[...]: self.data is the module's
\* _DEFAULT_DATA object after reset_defaults, and its own object after read_file.
Mutate(d) ==
    /\ data' = d
    /\ DEFAULT_DATA' = IF is_default THEN d ELSE DEFAULT_DATA
    /\ UNCHANGED is_default

\* d[k] = v and del d[k] on a dict.
SetItem(d, k, v) == [j \in DOMAIN d \cup {k} |-> IF j = k THEN v ELSE d[j]]
DelItem(d, k) == [j \in DOMAIN d \ {k} |-> d[j]]

MappingInit ==
    /\ mpc = "none"
    /\ data = NoData
    /\ is_default = FALSE
    /\ DEFAULT_DATA = DefaultDataLiteral
    /\ file \in {Absent, Empty, JsonFile(DefaultDataLiteral)}
    /\ temp_file = FALSE
    /\ mcall = NoCall

\* StylesMappingHandler(input_path), up to the end of read_file: the file at the
\* handler's path is the one of the last handler, or the one of another directory.
\* A file that json.load cannot read sends __init__ to reset_defaults.
StylesMappingHandler_init ==
    /\ mpc \in {"none", "idle"}
    /\ \E f \in {file, Absent, Empty} :
         /\ file' = f
         /\ IF f.state = "json"
            THEN /\ data' = f.content
                 /\ is_default' = FALSE
                 /\ mpc' = "idle"
                 /\ mcall' = MCall("__init__", "ok", "", 0)
            ELSE /\ mpc' = "reset"
                 /\ mcall' = MCall("read_file", "StylesMappingError", "read", 0)
                 /\ UNCHANGED <<data, is_default>>
    /\ UNCHANGED <<DEFAULT_DATA, temp_file>>
    /\ UNCHANGED <<fontVars, batchVars, decompVars, cffVars, snippetVars, styleVars>>

\* handler.save_to_file(handler.data)
save_to_file ==
    /\ mpc = "idle"
    /\ save_to_file_call(data, "save_to_file", 0)
    /\ UNCHANGED <<data, is_default, DEFAULT_DATA, mpc>>
    /\ UNCHANGED <<fontVars, batchVars, decompVars, cffVars, snippetVars, styleVars>>

\* reset_defaults, called on a handler or by __init__: an exception that leaves
\* __init__ leaves no handler.
reset_defaults ==
    /\ mpc \in {"idle", "reset"}
    /\ data' = DEFAULT_DATA
    /\ is_default' = TRUE
    /\ save_to_file_call(DEFAULT_DATA, "reset_defaults", 0)
    /\ mpc' = IF mpc = "reset" /\ mcall'.outcome # "ok" THEN "none" ELSE "idle"
    /\ UNCHANGED DEFAULT_DATA
    /\ UNCHANGED <<fontVars, batchVars, decompVars, cffVars, snippetVars, styleVars>>

\* set_weight / set_width: both validations, the assignment, the save.
SetClass(op, field, n, min_value, max_value, names) ==
    IF ~validate_range(n, min_value, max_value)
    THEN MappingRaises(op, "range", n)
    ELSE IF ~validate_names(names)
    THEN MappingRaises(op, "names", n)
    ELSE LET d == [data EXCEPT ![field] = SetItem(@, IntKey(n), sorted(names))]
         IN  /\ Mutate(d)
             /\ save_to_file_call(d, op, n)
             /\ UNCHANGED mpc

set_weight ==
    /\ mpc = "idle"
    /\ \E w \in WeightArgs, names \in NamesArgs :
         SetClass("set_weight", "weights", w, MIN_US_WEIGHT_CLASS, MAX_US_WEIGHT_CLASS,
                  names)
    /\ UNCHANGED <<fontVars, batchVars, decompVars, cffVars, snippetVars, styleVars>>

set_width ==
    /\ mpc = "idle"
    /\ \E w \in WidthArgs, names \in NamesArgs :
         SetClass("set_width", "widths", w, MIN_US_WIDTH_CLASS, MAX_US_WIDTH_CLASS,
                  names)
    /\ UNCHANGED <<fontVars, batchVars, decompVars, cffVars, snippetVars, styleVars>>

set_slope ==
    /\ mpc = "idle"
    /\ \E slope \in SlopeArgs, names \in NamesArgs :
         IF ~validate_names(names)
         THEN MappingRaises("set_slope", "names", 0)
         ELSE LET d == [data EXCEPT !.slopes = SetItem(@, slope, sorted(names))]
              IN  /\ Mutate(d)
                  /\ save_to_file_call(d, "set_slope", 0)
                  /\ UNCHANGED mpc
    /\ UNCHANGED <<fontVars, batchVars, decompVars, cffVars, snippetVars, styleVars>>

\* del_weight / del_width: the membership test, the deletion, the save.
DelClass(op, field, n) ==
    IF IntKey(n) \notin DOMAIN data[field]
    THEN MappingRaises(op, "not found", n)
    ELSE LET d == [data EXCEPT ![field] = DelItem(@, IntKey(n))]
         IN  /\ Mutate(d)
             /\ save_to_file_call(d, op, n)
             /\ UNCHANGED mpc

del_weight ==
    /\ mpc = "idle"
    /\ \E w \in WeightArgs : DelClass("del_weight", "weights", w)
    /\ UNCHANGED <<fontVars, batchVars, decompVars, cffVars, snippetVars, styleVars>>

del_width ==
    /\ mpc = "idle"
    /\ \E w \in WidthArgs : DelClass("del_width", "widths", w)
    /\ UNCHANGED <<fontVars, batchVars, decompVars, cffVars, snippetVars, styleVars>>

MappingNext ==
    \/ StylesMappingHandler_init
    \/ save_to_file
    \/ reset_defaults
    \/ set_weight
    \/ set_width
    \/ set_slope
    \/ del_weight
    \/ del_width

MappingIdle ==
    /\ mpc = "none"
    /\ data = NoData
    /\ is_default = FALSE
    /\ DEFAULT_DATA = DefaultDataLiteral
    /\ file = Absent
    /\ temp_file = FALSE
    /\ mcall = NoCall

\* ------------------------------------------------------ specification

\* Each machine at rest, for the specifications of the other machines.
FontIdle ==
    /\ sfntVersion = TT_SFNT_VERSION
    /\ flavor = NONE_FLAVOR
    /\ tables = [fvar |-> FALSE, composite |-> FALSE, hinted |-> FALSE, subr |-> FALSE,
                 overlaps |-> FALSE, upem |-> 1000]
    /\ modified = FALSE
    /\ pc = "idle"
    /\ original_flavor = NONE_FLAVOR
    /\ lastCall = Constructed(FALSE)

BatchIdle ==
    /\ cmd = [name |-> "subr", target_upm |-> FALSE, subroutinize |-> FALSE]
    /\ fontIdx = NumFonts + 1
    /\ bpc = "done"
    /\ step = 1
    /\ trace = <<>>
    /\ marked = FALSE
    /\ result = [f \in Fonts |-> "pending"]
    /\ reported = [f \in Fonts |-> FALSE]
    /\ closed = [f \in Fonts |-> FALSE]
    /\ opened = [f \in Fonts |-> {}]
    /\ dest = [f \in Fonts |-> "absent"]

DecompIdle ==
    /\ glyf = [g \in GlyphNames |-> SimpleGlyph(<<Contour(g, 0)>>)]
    /\ glyf0 = glyf
    /\ gi = NumGlyphs + 1
    /\ dstatus = "done"
    /\ dexc = ""
    /\ stack = <<>>
    /\ value = <<>>

RestIdle == CffIdle /\ SnippetIdle /\ StyleIdle /\ MappingIdle

Init == FontInit /\ BatchIdle /\ DecompIdle /\ RestIdle

Next ==
    \/ to_woff
    \/ to_woff2
    \/ to_sfnt
    \/ to_ttf
    \/ to_otf
    \/ tt_decomponentize
    \/ tt_remove_hints
    \/ tt_scale_upem
    \/ ps_correct_contours
    \/ ps_subroutinize
    \/ ps_subroutinize_return
    \/ ps_desubroutinize
    \/ ps_desubroutinize_return

\* The font container and its operations, called in any order.
Spec == Init /\ [][Next]_vars

\* One batch command over the fonts of the finder.
BatchSpecInit == BatchInit /\ FontIdle /\ DecompIdle /\ RestIdle

BatchSpec == BatchSpecInit /\ [][BatchNext]_vars

\* The interpreter keeps executing the command until it returns or is aborted.
BatchFairSpec == BatchSpec /\ WF_vars(BatchNext)

\* One call of tt_decomponentize on a TrueType font.
DecompSpecInit == DecompInit /\ FontIdle /\ BatchIdle /\ RestIdle

DecompSpec == DecompSpecInit /\ [][DecompNext]_vars

\* ps_subroutinize and ps_desubroutinize, in any order, on one PostScript font.
CffSpecInit ==
    /\ CffInit /\ PsFontIdle /\ BatchIdle /\ DecompIdle /\ SnippetIdle /\ StyleIdle
    /\ MappingIdle

CffSpec == CffSpecInit /\ [][CffNext]_vars

\* The snippets, called in any order on one font.
SnippetSpecInit ==
    /\ FontInit /\ BatchIdle /\ DecompIdle /\ CffIdle /\ SnippetIdle /\ StyleIdle
    /\ MappingIdle

SnippetSpec == SnippetSpecInit /\ [][SnippetNext]_vars

\* The style setters, called in any order on one font.
StyleSpecInit ==
    /\ StyleInit /\ FontIdle /\ BatchIdle /\ DecompIdle /\ CffIdle /\ SnippetIdle
    /\ MappingIdle

StyleSpec == StyleSpecInit /\ [][StyleNext]_vars

\* The handlers of one process and their operations, called in any order.
MappingSpecInit ==
    /\ MappingInit /\ FontIdle /\ BatchIdle /\ DecompIdle /\ CffIdle /\ SnippetIdle
    /\ StyleIdle

MappingSpec == MappingSpecInit /\ [][MappingNext]_vars

\* ------------------------------------------------------------- claims

ConversionOps == {"to_ttf", "to_otf", "to_woff", "to_woff2", "to_sfnt"}

MutatingOps ==
    {"to_woff", "to_woff2", "to_sfnt", "to_ttf", "to_otf", "tt_decomponentize",
     "tt_remove_hints", "tt_scale_upem", "ps_subroutinize", "ps_desubroutinize",
     "ps_correct_contours"}

\* C1: to_ttf reaches build_ttf only from a static PostScript font and to_otf reaches
\* quadratics_to_cubics / build_otf only from a static TrueType font; from every other
\* state (an sfntVersion that is neither included) the call raises in a guard and no
\* build step runs.
C1_ConvertOnlyFromTheOtherKind ==
    [][ /\ (lastCall'.op = "to_ttf" /\ ~(is_ps /\ is_static)
              => lastCall'.outcome = "guard" /\ lastCall'.steps = <<>>)
        /\ (lastCall'.op = "to_otf" /\ ~(is_tt /\ is_static)
              => lastCall'.outcome = "guard" /\ lastCall'.steps = <<>>) ]_vars

\* C2: a call that ends in a guard failure leaves outline kind, wrapper kind, tables
\* and the modified flag exactly as they were before the call.
C2_GuardFailureLeavesContainer ==
    [][ lastCall'.outcome = "guard" => Container' = Container ]_vars

C2_Witness ==
    /\ lastCall.outcome = "guard"
    /\ lastCall.op = "ps_correct_contours"
    /\ flavor = WOFF_FLAVOR
    /\ modified

C4_WrapperTransitions ==
    [][ /\ (lastCall'.op = "to_woff" =>
              IF is_woff THEN lastCall'.outcome = "guard" /\ Container' = Container
              ELSE lastCall'.outcome = "ok" /\ flavor' = WOFF_FLAVOR /\ modified')
        /\ (lastCall'.op = "to_woff2" =>
              IF is_woff2 THEN lastCall'.outcome = "guard" /\ Container' = Container
              ELSE lastCall'.outcome = "ok" /\ flavor' = WOFF2_FLAVOR /\ modified')
        /\ (lastCall'.op = "to_sfnt" =>
              IF is_sfnt THEN lastCall'.outcome = "guard" /\ Container' = Container
              ELSE lastCall'.outcome = "ok" /\ flavor' = NONE_FLAVOR /\ modified') ]_vars

C4_Witness ==
    /\ lastCall.op = "to_woff2"
    /\ lastCall.outcome = "ok"
    /\ flavor = WOFF2_FLAVOR
    /\ modified

\* C5: after a successful call of a mutating operation (ps_correct_contours only when
\* it altered a glyph) modified is True; on a new Font it is the constructor's value.
C5_ModifiedAfterSuccess ==
    /\ ((lastCall.outcome = "ok"
            /\ lastCall.op \in MutatingOps
            /\ (lastCall.op = "ps_correct_contours" => lastCall.flag))
          => modified = TRUE)
    /\ (lastCall.op = "__init__" => modified = lastCall.flag)

C5_Witness ==
    /\ lastCall.op = "tt_remove_hints"
    /\ lastCall.outcome = "ok"
    /\ modified

\* C6: while subroutinize / desubroutinize runs the flavor is None, and when the call
\* ends, by return or by raise, the flavor is the one the font had before the call.
C6_FlavorClearedAndRestored ==
    [][ /\ (pc' # "idle" => flavor' = NONE_FLAVOR)
        /\ (pc = "idle" /\ pc' # "idle" => original_flavor' = flavor)
        /\ (pc # "idle" /\ pc' = "idle" => flavor' = original_flavor) ]_vars

C6_Witness ==
    /\ pc = "idle"
    /\ lastCall.op = "ps_subroutinize"
    /\ lastCall.outcome = "error"
    /\ flavor = WOFF2_FLAVOR

\* C10: to_ttf with max_err <= 0 and to_otf with tolerance <= 0 fail in a guard before
\* any conversion step, and the container is not mutated.
C10_NonPositiveToleranceRejected ==
    [][ lastCall'.op \in {"to_ttf", "to_otf"} /\ lastCall'.arg <= 0
          => /\ lastCall'.outcome = "guard"
             /\ lastCall'.steps = <<>>
             /\ Container' = Container ]_vars

\* The stage of the conversion pipeline a statement of tt2ps belongs to.
StageSteps ==
    {"tt_decomponentize", "get_charstrings", "ttf_to_otf", "correct_otf_contours",
     "subroutinize"}

StageOf(s) ==
    CASE s = "tt_decomponentize" -> "Decomponentizer"
      [] s = "get_charstrings" -> "CurveConverter"
      [] s = "ttf_to_otf" -> "CharstringBuilder"
      [] s = "correct_otf_contours" -> "ContourSanitizer"
      [] s = "subroutinize" -> "CompactionStage"

StagesRun ==
    LET st == SelectSeq(trace, LAMBDA s : s \in StageSteps)
    IN  [i \in 1..Len(st) |-> StageOf(st[i])]

IsPrefix(a, b) == Len(a) <= Len(b) /\ a = SubSeq(b, 1, Len(a))

InTrace(s) == \E i \in 1..Len(trace) : trace[i] = s

\* C7: in a batch loop a failure on one font is caught and reported for that font and
\* the loop goes on: the command eventually returns with every font saved, or failed
\* and reported.
C7_EveryFontProcessedOrReported ==
    <>(/\ bpc = "done"
       /\ \A f \in Fonts :
            \/ result[f] = "saved"
            \/ result[f] = "failed" /\ reported[f])

C7_Witness ==
    /\ bpc = "done"
    /\ result[1] = "failed"
    /\ reported[1]
    /\ result[2] = "saved"
    /\ result[NumFonts] = "failed"

C9_CycleReportedNotRecursed ==
    /\ \A i, j \in 1..Len(stack) : i # j => stack[i].glyph # stack[j].glyph
    /\ (dstatus = "raised" => dexc = "MalformedFontError")
    /\ (dstatus = "done" => \A g \in GlyphNames : ~glyf[g].composite)

\* The outline the glyph g of the table t stands for: its own outline, or the
\* outlines of its components, resolved recursively and translated.
RECURSIVE Resolved(_, _)
Resolved(t, g) ==
    IF ~t[g].composite
    THEN t[g].outline
    ELSE LET RECURSIVE Parts(_)
             Parts(i) ==
                 IF i > Len(t[g].components)
                 THEN <<>>
                 ELSE Transformed(Resolved(t, t[g].components[i].glyph),
                                  t[g].components[i].dx) \o Parts(i + 1)
         IN  Parts(1)

\* C11: after a successful tt_decomponentize no glyph is composite, every formerly
\* composite glyph has the outlines of its referenced glyphs, resolved recursively
\* and translated into its coordinate space, and every other glyph is unchanged.
C11_FlattenedOutlines ==
    dstatus = "done" =>
        \A g \in GlyphNames :
            /\ ~glyf[g].composite
            /\ glyf[g].outline = Resolved(glyf0, g)
            /\ (~glyf0[g].composite => glyf[g] = glyf0[g])

\* A composite of a composite, both translated, was flattened next to a glyph
\* that was simple from the start.
C11_Witness ==
    /\ dstatus = "done"
    /\ \E g, h \in GlyphNames :
          /\ glyf0[g].composite
          /\ glyf0[h].composite
          /\ glyf0[g].components = <<[glyph |-> h, dx |-> 1]>>
          /\ glyf0[h].components[1].dx = 1
          /\ glyf[g].outline[1].dx = 2
    /\ \E g \in GlyphNames : ~glyf0[g].composite

\* C12: ps_correct_contours returns exactly the glyph names fix_charstrings altered;
\* when there are none it returns after fix_charstrings, the container and modified
\* unchanged, and otherwise it calls build_otf once and then sets modified.
C12_CorrectContoursResult ==
    [][ lastCall'.op = "ps_correct_contours" /\ lastCall'.outcome = "ok"
          => /\ lastCall'.ret = lastCall'.libret
             /\ IF lastCall'.libret = {}
                THEN /\ lastCall'.steps = <<"fix_charstrings">>
                     /\ Container' = Container
                ELSE /\ lastCall'.steps = <<"fix_charstrings", "build_otf">>
                     /\ modified' ]_vars

C12_Witness ==
    /\ lastCall.op = "ps_correct_contours"
    /\ lastCall.outcome = "ok"
    /\ lastCall.ret = {}
    /\ lastCall.steps = <<"fix_charstrings">>
    /\ ~modified

\* C13: to_otf runs Decomponentizer, Curve Converter, Builder in this order: on a font
\* with composite glyphs the first call is the decomponentizer, quadratics_to_cubics
\* follows, build_otf comes last, and modified changes only after build_otf returned.
C13_DecomponentizerBeforeCurveConverter ==
    [][ lastCall'.op = "to_otf" /\ lastCall'.outcome # "guard"
          => /\ (tables.composite => lastCall'.steps[1] = "decomponentize")
             /\ \E i \in 1..Len(lastCall'.steps) :
                   lastCall'.steps[i] = "quadratics_to_cubics"
             /\ (modified' # modified
                   => /\ lastCall'.outcome = "ok"
                      /\ lastCall'.steps[Len(lastCall'.steps)] = "build_otf") ]_vars

\* C14: once the loop has moved past a font, that font is closed and every
\* intermediate Font or buffer created while processing it is closed as well,
\* whether processing succeeded or raised.
C14_EveryResourceReleased ==
    \A f \in Fonts :
        (f < fontIdx \/ bpc \in {"done", "aborted"}) /\ result[f] # "pending"
            => closed[f] /\ opened[f] = {}

\* C15: a save that fails leaves the file at the output path exactly as it was
\* before the save (absent if it was absent); no partial file is ever left.
C15_NoPartialOutputFile ==
    \A f \in Fonts :
        /\ dest[f] # "partial"
        /\ (result[f] = "failed" => dest[f] \in OutputFiles)

TrueTypeOps == {"tt_decomponentize", "tt_remove_hints", "tt_scale_upem"}

PostScriptOps == {"ps_correct_contours", "ps_subroutinize", "ps_desubroutinize"}

\* C16: a tt_ operation on a font that is not TrueType, and a ps_ operation on a font
\* that is not PostScript, raises NotImplementedError in its guard: no library call
\* is made and the container is left as it was.
C16_OwnOutlineKindOnly ==
    [][ ((lastCall'.op \in TrueTypeOps /\ ~is_tt)
           \/ (lastCall'.op \in PostScriptOps /\ ~is_ps))
          => /\ lastCall'.outcome = "guard"
             /\ lastCall'.exc = "NotImplementedError"
             /\ lastCall'.steps = <<>>
             /\ pc' = "idle"
             /\ Container' = Container ]_vars

C16_Witness ==
    /\ lastCall.op = "tt_decomponentize"
    /\ lastCall.outcome = "guard"
    /\ lastCall.exc = "NotImplementedError"
    /\ is_ps
    /\ tables.subr

\* C17: every guard failure raises one and the same kind of error, whichever guard
\* failed: two consecutive calls that both end in a guard raise the same exception
\* type.
C17_OneKindOfGuardError ==
    [][ lastCall.outcome = "guard" /\ lastCall'.outcome = "guard"
          => lastCall'.exc = lastCall.exc ]_vars

\* C18: to_woff, to_woff2 and to_sfnt never change the outline kind, to_ttf and to_otf
\* never change the wrapper kind, and the outline kind changes only in a successful
\* to_ttf or to_otf.
C18_OutlineAndWrapperIndependent ==
    [][ /\ (lastCall'.op \in {"to_woff", "to_woff2", "to_sfnt"}
              => sfntVersion' = sfntVersion)
        /\ (lastCall'.op \in {"to_ttf", "to_otf"} => flavor' = flavor)
        /\ (sfntVersion' # sfntVersion
              => lastCall'.op \in {"to_ttf", "to_otf"} /\ lastCall'.outcome = "ok") ]_vars

C18_Witness ==
    /\ lastCall.op = "to_ttf"
    /\ lastCall.outcome = "ok"
    /\ is_tt
    /\ flavor = WOFF2_FLAVOR

\* C19: in every state exactly one of is_tt and is_ps holds; after a successful
\* to_otf the font is PostScript and after a successful to_ttf it is TrueType, with
\* nothing of the other outline kind left in the tables.
C19_ExactlyOneOutlineKind ==
    /\ is_tt # is_ps
    /\ (lastCall.op = "to_otf" /\ lastCall.outcome = "ok"
          => is_ps /\ ~is_tt /\ ~tables.composite /\ ~tables.hinted)
    /\ (lastCall.op = "to_ttf" /\ lastCall.outcome = "ok"
          => is_tt /\ ~is_ps /\ ~tables.subr)

C21_ReencodingKeepsOutlines ==
    \A g \in CharstringNames : Decoded(charstrings[g], subrs) = charstrings0[g]

\* A font subroutinized twice (a subroutine that calls a subroutine), and a font
\* desubroutinized after having been subroutinized.
C21_Witness ==
    /\ Len(subrs) = 2
    /\ \E i \in 1..Len(subrs[2]) : subrs[2][i] < 0
    /\ \E g \in CharstringNames : \E i \in 1..Len(charstrings[g]) : charstrings[g][i] < 0
    /\ lastCall.op = "ps_subroutinize"
    /\ lastCall.prev = <<"ps_subroutinize", "ok">>

\* C22: tt_scale_upem on a TrueType font fails in a guard, before scale_upem, exactly
\* when new_upem is outside MIN_UPM..MAX_UPM or equals the current unitsPerEm; both
\* boundary values pass when they differ from the current value; and the comparison
\* of lib/font/font.py decides as the range membership of lib/font.py does.
C22_UpemGuards ==
    [][ lastCall'.op = "tt_scale_upem" /\ is_tt
          => /\ (lastCall'.outcome = "guard"
                   <=> (~InUpemRange(lastCall'.arg) \/ lastCall'.arg = tables.upem))
             /\ (lastCall'.outcome = "guard"
                   => /\ lastCall'.exc = "ValueError"
                      /\ lastCall'.steps = <<>>
                      /\ Container' = Container)
             /\ (lastCall'.arg \in {MIN_UPM, MAX_UPM} /\ lastCall'.arg # tables.upem
                   => lastCall'.outcome # "guard") ]_vars

C22_Witness ==
    /\ lastCall.op = "tt_scale_upem"
    /\ lastCall.outcome = "ok"
    /\ lastCall.arg = MAX_UPM
    /\ tables.upem = MAX_UPM
    /\ lastCall.prev = <<"tt_scale_upem", "guard">>

\* C23: sfnt_to_web main with out_format unset, on an uncompressed SFNT font, calls
\* to_woff, save, to_woff2, save in this order: two files are saved, the first as
\* WOFF and the second as WOFF2, both with the suffix the font's extension gave
\* before any conversion.  With one out_format only that conversion and one save
\* happen.  A conversion that raises is the last call made, and nothing is saved
\* after it.
C23_WebConversionOrder ==
    [][ lastCall'.op = "sfnt_to_web"
          => /\ (args'.out_format = "None" /\ is_sfnt /\ lastCall'.outcome = "ok"
                   => /\ lastCall'.steps = <<"to_woff", "save", "to_woff2", "save">>
                      /\ saved' = <<[flavor |-> WOFF_FLAVOR, suffix |-> get_real_extension],
                                    [flavor |-> WOFF2_FLAVOR, suffix |-> get_real_extension]>>
                      /\ get_real_extension \notin {WOFF_EXTENSION, WOFF2_EXTENSION})
             /\ (args'.out_format = WOFF_FLAVOR /\ lastCall'.outcome = "ok"
                   => /\ lastCall'.steps = <<"to_woff", "save">>
                      /\ saved' = <<[flavor |-> WOFF_FLAVOR, suffix |-> get_real_extension]>>)
             /\ (args'.out_format = WOFF2_FLAVOR /\ lastCall'.outcome = "ok"
                   => /\ lastCall'.steps = <<"to_woff2", "save">>
                      /\ saved' = <<[flavor |-> WOFF2_FLAVOR, suffix |-> get_real_extension]>>)
             /\ (lastCall'.exc = "NotImplementedError"
                   => /\ lastCall'.steps[Len(lastCall'.steps)] \in {"to_woff", "to_woff2"}
                      /\ Len(saved') =
                           Len(SelectSeq(lastCall'.steps, LAMBDA c : c = "save"))
                      /\ flavor' = IF saved' = <<>> THEN flavor
                                   ELSE saved'[Len(saved')].flavor) ]_vars

C23_Witness ==
    /\ lastCall.op = "sfnt_to_web"
    /\ lastCall.outcome = "ok"
    /\ args.out_format = "None"
    /\ Len(saved) = 2
    /\ saved[1].suffix = OTF_EXTENSION
    /\ flavor = WOFF2_FLAVOR

\* C26: once the modified flag of a font is True, no later call resets it to False.
C26_ModifiedStaysTrue ==
    [][ modified => modified' ]_vars

\* C27: after add_extremes main has completed without raising, the modified flag is
\* True, with and without subroutinize.
C27_AddExtremesMarksModified ==
    [][ lastCall'.op = "add_extremes" /\ lastCall'.outcome = "ok" => modified' ]_vars

\* C28: every call of set_bold, set_italic and set_regular leaves the OS/2 and head
\* bold and italic bits equal and the regular bit set exactly when neither bold nor
\* italic is set; set_oblique changes the oblique bit and nothing else.
C28_StyleBitsConsistent ==
    [][ /\ os_2'.is_bold = head'.is_bold
        /\ os_2'.is_italic = head'.is_italic
        /\ os_2'.is_regular = (~os_2'.is_bold /\ ~os_2'.is_italic)
        /\ (lastCall'.op = "set_oblique"
              => /\ head' = head
                 /\ os_2' = [os_2 EXCEPT !.is_oblique = lastCall'.flag]) ]_vars

\* The bold bit was cleared on a font that stays italic.
C28_Witness ==
    /\ lastCall.op = "set_bold"
    /\ ~lastCall.flag
    /\ lastCall.prev = <<"set_italic", "ok">>
    /\ os_2.is_italic
    /\ head.is_italic
    /\ ~os_2.is_bold
    /\ ~os_2.is_regular

\* C29: in every batch command the output path of a font is written only by the
\* last statement of its try body, the save, after every processing step of that
\* font has returned; a font whose processing step raises leaves its output path
\* as it was when the command started.
C29_SaveOnlyAfterProcessing ==
    [][\A f \in Fonts :
          /\ (dest'[f] # dest[f] =>
                 /\ f = fontIdx
                 /\ bpc = "body"
                 /\ step = Len(Steps(cmd))
                 /\ Steps(cmd)[step] = "save"
                 /\ trace = SubSeq(Steps(cmd), 1, Len(Steps(cmd)) - 1)
                 /\ dest[f] \in OutputFiles)
          /\ (result[f] = "pending" /\ result'[f] = "failed" /\ step < Len(Steps(cmd)) =>
                 /\ dest'[f] = dest[f]
                 /\ dest'[f] \in OutputFiles)]_vars

\* A font whose processing raised and whose output path is untouched, after an
\* earlier font of the same command was saved.
C29_Witness ==
    /\ \E f \in Fonts : result[f] = "failed" /\ dest[f] \in OutputFiles
                         /\ Len(trace) < Len(Steps(cmd)) - 1
                         /\ fontIdx = f + 1 /\ bpc = "for"
    /\ \E g \in Fonts : result[g] = "saved" /\ dest[g] = "new"

\* The operations of StylesMappingHandler that C24 names.
MappingOps ==
    {"save_to_file", "reset_defaults", "set_weight", "set_width", "set_slope",
     "del_weight", "del_width"}

\* C24: a StylesMappingHandler operation that raises StylesMappingError leaves the
\* mapping file as it was before the call (absent if it was absent), leaves no .tmp
\* file, and leaves the in-memory mapping as it was before the call.
C24_FailedCallChangesNothing ==
    [][mcall'.op \in MappingOps /\ mcall'.outcome = "StylesMappingError" =>
          /\ file' = file
          /\ ~temp_file'
          /\ data' = data]_vars

\* C25: reset_defaults that returns leaves the in-memory mapping and the mapping
\* file equal to the original default weights, widths and slopes, whatever was
\* called before in the process.
C25_ResetWritesOriginalDefaults ==
    mcall.op = "reset_defaults" /\ mcall.outcome = "ok" =>
        /\ data = DefaultDataLiteral
        /\ file = JsonFile(DefaultDataLiteral)

\* The entries a dict holds for the number n, under an int or a str key.
EntriesFor(d, n) == {k \in DOMAIN d : k[2] = n}

\* The dict of the mapping that an operation works on.
FieldOf(op) == IF op \in {"set_weight", "del_weight"} THEN "weights" ELSE "widths"

\* C30: set_weight (set_width) that returns leaves exactly one entry for its value;
\* del_weight (del_width) that returns leaves none; and "not found" is raised only
\* when the mapping holds no entry for the value.
C30_OneEntryPerValue ==
    /\ (mcall.op \in {"set_weight", "set_width"} /\ mcall.outcome = "ok" =>
           Cardinality(EntriesFor(data[FieldOf(mcall.op)], mcall.arg)) = 1)
    /\ (mcall.op \in {"del_weight", "del_width"} /\ mcall.outcome = "ok" =>
           EntriesFor(data[FieldOf(mcall.op)], mcall.arg) = {})
    /\ (mcall.op \in {"del_weight", "del_width"} /\ mcall.why = "not found" =>
           EntriesFor(data[FieldOf(mcall.op)], mcall.arg) = {})

====
